---------------------------- MODULE Spec2Model ----------------------------
(***************************************************************************)
(* Model of batcher.py: the character vocabulary builder                   *)
(* (build_vocabulary / Batcher.write), the one-hot CharacterTable          *)
(* (encode / decode), the auto-restarting LazyDataLoader (next /           *)
(* statistics) and the batch materializer Batcher.build.                   *)
(*                                                                         *)
(* A character is its Unicode code point, a string is a sequence of        *)
(* characters, so Python's ordering of characters (sorted) is the          *)
(* ordering of the integers.  A corpus file is a sequence of lines.        *)
(***************************************************************************)
EXTENDS Integers, Sequences, FiniteSets, TLC

VARIABLES
    corpus,     \* the training file: a sequence of lines
    stream,     \* LazyDataLoader.stream: the generator's position and liveness
    inits,      \* number of times next() re-initialised the stream (line 198)
    calls,      \* the log of the calls made on the loader, with their outcomes
    pc,         \* where the caller is: "idle" or a step of Batcher.build
    count,      \* Batcher.build's local training_records_count
    inputs,     \* Batcher.build's local list inputs
    targets,    \* Batcher.build's local list targets
    archive,    \* the file INPUTS_TARGETS_FILENAME
    vocab,      \* the outcome of the last build_vocabulary run
    files,      \* the two pickles token_indices.pkl / indices_token.pkl
    ctable,     \* CharacterTable.chars of the table under test
    enc,        \* the last encode call: its arguments and what it produced
    dec         \* the last decode call: what it produced

vars == <<corpus, stream, inits, calls, pc, count, inputs, targets,
          archive, vocab, files, ctable, enc, dec>>

loaderVars == <<stream, inits, calls>>
buildVars  == <<pc, count, inputs, targets, archive>>
vocabVars  == <<vocab, files>>
tableVars  == <<ctable, enc, dec>>

(***************************************************************************)
(* Program constants.                                                      *)
(***************************************************************************)
SEP == 9                            \* '\t'
ENCODING_MAX_PASSWORD_LENGTH == 12
ENCODING_MAX_SIZE_VOCAB == 80
OOV_CHAR == 65311                   \* U+FF1F, the fullwidth question mark
PAD_CHAR == 32                      \* ' '
SPACE == 32                         \* the literal ' ' of discard_password
\* mutants: encode's two literal keys exchanged for one another
ENCODE_OOV_IS_PAD == PAD_CHAR
ENCODE_PAD_IS_OOV == OOV_CHAR
ENCODE_OOV == 65311                 \* the literal key of encode's OOV branch
ENCODE_PAD == 32                    \* the literal key of encode's pad branch

(***************************************************************************)
(* Bounds of the model.                                                    *)
(***************************************************************************)
MaxCorpusLen == 3       \* lines of a corpus of the loader specification
MaxCalls == 5           \* next() calls followed on one loader
MaxVocabLines == 4      \* lines of a corpus of the vocabulary specification
MaxTextLen == 3         \* length of a string handed to encode
MaxRows == 3            \* num_rows handed to encode
MaxCharsLen == 4        \* length of the string handed to CharacterTable


(***************************************************************************)
(* Python helpers: min, max, sorted(set(..)), str.strip, str.split.        *)
(***************************************************************************)
Max2(a, b) == IF a >= b THEN a ELSE b

Range(s) == {s[i] : i \in DOMAIN s}

\* S in ascending order, all of S lying in lo..hi (halving the range)
RECURSIVE SortRange(_, _, _)
SortRange(S, lo, hi) ==
    IF S = {} THEN <<>>
    ELSE IF lo = hi THEN <<lo>>
    ELSE SortRange({c \in S : c <= (lo + hi) \div 2}, lo, (lo + hi) \div 2)
         \o SortRange({c \in S : c > (lo + hi) \div 2}, (lo + hi) \div 2 + 1, hi)

\* sorted(S) for a set of characters: ascending code point order (code
\* points are 0 .. 0x10FFFF)
Sorted(S) == SortRange(S, 0, 1114111)

\* the characters str.strip() removes (ASCII whitespace)
Whitespace == {9, 10, 11, 12, 13, 28, 29, 30, 31, 32}

Strip(s) ==
    LET keep == {i \in DOMAIN s : s[i] \notin Whitespace}
    IN  IF keep = {} THEN <<>>
        ELSE LET lo == CHOOSE i \in keep : \A j \in keep : i <= j
                 hi == CHOOSE i \in keep : \A j \in keep : i >= j
             IN  SubSeq(s, lo, hi)

RECURSIVE Split(_, _)
Split(s, sep) ==
    LET at == {i \in DOMAIN s : s[i] = sep}
    IN  IF at = {} THEN <<s>>
        ELSE LET i == CHOOSE k \in at : \A j \in at : k <= j
             IN  <<SubSeq(s, 1, i - 1)>> \o Split(SubSeq(s, i + 1, Len(s)), sep)

\* all strings over alphabet A of length at most n
StringsUpTo(A, n) == UNION {[1..k -> A] : k \in 0..n}


(***************************************************************************)
(* CharacterTable.                                                         *)
(***************************************************************************)
KeyError == "KeyError"
ValueError == "ValueError"
AssertionError == "AssertionError"
RecursionError == "RecursionError"
NoError == ""

\* mutant: the characters are kept as given
CharacterTableAsGiven(chars) == chars

\* CharacterTable.__init__: self.chars = sorted(set(chars))
CharacterTable(chars) == Sorted(Range(chars))

\* self.char_indices = dict((c, i) for i, c in enumerate(self.chars))
char_indices(t) ==
    [c \in Range(t) |-> (CHOOSE i \in DOMAIN t : t[i] = c) - 1]

\* self.indices_char = dict((i, c) for i, c in enumerate(self.chars))
indices_char(t) == [i \in 0..(Len(t) - 1) |-> t[i + 1]]

\* d[k] of a Python dict: the value, or KeyError (-1 here, no valid index)
Missing == 0 - 1
Lookup(d, k) == IF k \in DOMAIN d THEN d[k] ELSE Missing

\* The column encode sets to 1 in row i (0-based), or Missing when the
\* lookup of the literal OOV / pad key raises KeyError.  C[i] raising
\* IndexError (i >= len(C)) selects the pad branch.
EncodeColumn(t, C, i) ==
    IF i < Len(C)
    THEN IF C[i + 1] \notin DOMAIN char_indices(t)
         THEN Lookup(char_indices(t), ENCODE_OOV)
         ELSE char_indices(t)[C[i + 1]]
    ELSE Lookup(char_indices(t), ENCODE_PAD)

\* a row of np.zeros with x[i, j] = 1
OneHot(n, j) == [col \in 1..n |-> IF col = j + 1 THEN 1 ELSE 0]

\* mutant: the loop runs over the whole text when it is longer than num_rows
EncodeRowsAll(C, num_rows) == 0..(Max2(num_rows, Len(C)) - 1)

\* the rows encode's loop visits: range(num_rows)
EncodeRows(C, num_rows) == 0..(num_rows - 1)

\* CharacterTable.encode: a matrix of shape (num_rows, len(self.chars)),
\* or KeyError raised out of the loop
encode(t, C, num_rows) ==
    LET rows == EncodeRows(C, num_rows)
    IN  IF \E i \in rows : EncodeColumn(t, C, i) = Missing
        THEN [err |-> KeyError, shape |-> <<0, 0>>, data |-> <<>>]
        ELSE [err |-> NoError,
              shape |-> <<Cardinality(rows), Len(t)>>,
              data |-> [r \in 1..Cardinality(rows) |->
                           OneHot(Len(t), EncodeColumn(t, C, r - 1))]]

\* numpy argmax of one row: the first index holding the maximum
ArgMax(row) ==
    (CHOOSE j \in DOMAIN row :
        \A k \in DOMAIN row : row[k] <= row[j] /\ (k < j => row[k] < row[j])) - 1

\* ''.join(self.indices_char[x] for x in x)
JoinIndices(t, idx) ==
    IF \E k \in DOMAIN idx : idx[k] \notin DOMAIN indices_char(t)
    THEN [err |-> KeyError, out |-> <<>>]
    ELSE [err |-> NoError, out |-> [k \in DOMAIN idx |-> indices_char(t)[idx[k]]]]

\* CharacterTable.decode with calc_argmax=True, x a matrix
decode(t, x) ==
    IF x.shape[2] = 0
    THEN [err |-> ValueError, out |-> <<>>]     \* argmax over an empty axis
    ELSE JoinIndices(t, [r \in DOMAIN x.data |-> ArgMax(x.data[r])])

\* CharacterTable.decode with calc_argmax=False, x an index sequence
decode_indices(t, x) == JoinIndices(t, x)

(***************************************************************************)
(* Specification of the CharacterTable: a table is constructed from a      *)
(* character string, then strings are encoded and the result decoded.      *)
(***************************************************************************)
TableAlphabet == {32, 97, 98, 65311}
TextAlphabet == {32, 97, 122, 65311}

NoEncX == [err |-> NoError, shape |-> <<0, 0>>, data |-> <<>>]
NoEnc == [called |-> FALSE, text |-> <<>>, num_rows |-> 0, x |-> NoEncX]
NoDec == [called |-> FALSE, calc_argmax |-> TRUE, err |-> NoError, out |-> <<>>]

\* the other components, unused by this specification
LoaderIdle ==
    /\ stream = [pos |-> 0, alive |-> TRUE]
    /\ inits = 0
    /\ calls = <<>>
BuildIdle ==
    /\ pc = "idle"
    /\ count = 0
    /\ inputs = <<>>
    /\ targets = <<>>
    /\ archive = [exists |-> FALSE, inputs |-> <<>>, targets |-> <<>>]
VocabIdle ==
    /\ vocab = [done |-> FALSE, err |-> NoError, listed |-> FALSE, list |-> <<>>]
    /\ files = [written |-> FALSE, token_indices |-> <<>>, indices_token |-> <<>>]
TableIdle ==
    /\ ctable = <<>>
    /\ enc = NoEnc
    /\ dec = NoDec

\* The table is constructed from a character string; the arguments of the
\* encode call to come are drawn here.
InitTable ==
    /\ \E chars \in StringsUpTo(TableAlphabet, MaxCharsLen) :
          ctable = CharacterTable(chars)
    /\ \E text \in StringsUpTo(TextAlphabet, MaxTextLen), n \in 0..MaxRows :
          enc = [called |-> FALSE, text |-> text, num_rows |-> n, x |-> NoEncX]
    /\ dec = NoDec
    /\ corpus = <<>>
    /\ LoaderIdle
    /\ BuildIdle
    /\ VocabIdle

\* x = c_table.encode(text, num_rows)
Encode ==
    /\ ~enc.called
    /\ enc' = [enc EXCEPT !.called = TRUE,
                          !.x = encode(ctable, enc.text, enc.num_rows)]
    /\ UNCHANGED <<corpus, loaderVars, buildVars, vocabVars, ctable, dec>>

\* c_table.decode(x, calc_argmax=True) of the matrix encode returned
Decode ==
    /\ enc.called
    /\ enc.x.err = NoError
    /\ dec' = [called |-> TRUE, calc_argmax |-> TRUE,
               err |-> decode(ctable, enc.x).err, out |-> decode(ctable, enc.x).out]
    /\ UNCHANGED <<corpus, loaderVars, buildVars, vocabVars, ctable, enc>>

\* c_table.decode(idx, calc_argmax=False) of an index sequence
DecodeIndices ==
    \E idx \in StringsUpTo(0..Len(ctable), 1) :
        /\ dec' = [called |-> TRUE, calc_argmax |-> FALSE,
                   err |-> decode_indices(ctable, idx).err,
                   out |-> decode_indices(ctable, idx).out]
        /\ UNCHANGED <<corpus, loaderVars, buildVars, vocabVars, ctable, enc>>

NextTable == Encode \/ Decode \/ DecodeIndices

SpecTable == InitTable /\ [][NextTable]_vars

(***************************************************************************)
(* Properties of the CharacterTable (checked under SpecTable).             *)
(***************************************************************************)
HasSentinels(t) == OOV_CHAR \in Range(t) /\ PAD_CHAR \in Range(t)

\* text with its trailing pad characters removed
TrimPad(s) ==
    LET keep == {i \in DOMAIN s : s[i] # PAD_CHAR}
    IN  IF keep = {} THEN <<>>
        ELSE SubSeq(s, 1, CHOOSE i \in keep : \A j \in keep : i >= j)

\* row is a one-hot vector of width n with its 1 at (0-based) index j
IsOneHotAt(row, n, j) ==
    /\ DOMAIN row = 1..n
    /\ \A col \in 1..n : row[col] = (IF col - 1 = j THEN 1 ELSE 0)

ExactlyOneOne(row) ==
    /\ \A col \in DOMAIN row : row[col] \in {0, 1}
    /\ Cardinality({col \in DOMAIN row : row[col] = 1}) = 1

Min2(a, b) == IF a <= b THEN a ELSE b

\* the decoded string is the result of decoding the encoding of enc.text
RoundTripCase ==
    /\ dec.called /\ dec.calc_argmax
    /\ HasSentinels(ctable)
    /\ Len(enc.text) <= enc.num_rows
    /\ Range(enc.text) \subseteq Range(ctable)

\* C2 as stated: for a table holding both sentinels and a string s of
\* in-table characters with len(s) <= num_rows, decode(encode(s, num_rows))
\* with trailing pad characters removed equals s.
C2_RoundTrip_AsStated ==
    RoundTripCase => (dec.err = NoError /\ TrimPad(dec.out) = enc.text)

\* C2 amended: the same, for strings s that do not themselves end with the
\* pad character (which is a character of the table); for every s of the
\* claim the decoded string is s followed by num_rows - len(s) pad characters.
C2_RoundTrip ==
    RoundTripCase =>
        /\ dec.err = NoError
        /\ dec.out = enc.text \o [k \in 1..(enc.num_rows - Len(enc.text)) |-> PAD_CHAR]
        /\ (enc.text = <<>> \/ enc.text[Len(enc.text)] # PAD_CHAR)
              => TrimPad(dec.out) = enc.text

C2_Witness ==
    /\ RoundTripCase
    /\ Len(enc.text) = 2 /\ enc.num_rows = 3
    /\ enc.text[1] = PAD_CHAR /\ enc.text[2] = OOV_CHAR
    /\ TrimPad(dec.out) = enc.text

\* what C3 says of the matrix encode returned
EncodeShapeOK ==
    /\ enc.x.err = NoError
    /\ enc.x.shape = <<enc.num_rows, Len(ctable)>>
    /\ DOMAIN enc.x.data = 1..enc.num_rows
    /\ \A r \in 1..enc.num_rows :
          /\ DOMAIN enc.x.data[r] = 1..Len(ctable)
          /\ ExactlyOneOne(enc.x.data[r])
          /\ r > Len(enc.text)
                => /\ PAD_CHAR \in Range(ctable)
                   /\ IsOneHotAt(enc.x.data[r], Len(ctable),
                                 char_indices(ctable)[PAD_CHAR])

\* C3 as stated: for every CharacterTable, every string and every
\* num_rows >= 0, encode returns a num_rows x |chars| matrix with exactly one
\* 1 per row, rows past the end of the string one-hot at the pad index.
C3_EncodeShape_AsStated == enc.called => EncodeShapeOK

\* C3 amended: the same for every CharacterTable whose characters include
\* the OOV and the pad character; a string longer than num_rows is cut.
C3_EncodeShape == (enc.called /\ HasSentinels(ctable)) => EncodeShapeOK

C3_Witness ==
    /\ enc.called /\ HasSentinels(ctable)
    /\ enc.num_rows = 2 /\ Len(enc.text) = 3
    /\ enc.text[3] \notin Range(ctable)
    /\ EncodeShapeOK

StreamFields(line) == Split(Strip(line), SEP)

Malformed(line) == Len(StreamFields(line)) # 3

stream_from_file == [pos |-> 0, alive |-> TRUE]

\* next(g): kind is "yield" (val is the pair), "stop" (StopIteration) or
\* "parse" (the ValueError of a malformed line); g is the generator after
GenNext(file, g) ==
    IF ~g.alive \/ g.pos >= Len(file)
    THEN [kind |-> "stop", val |-> <<>>, g |-> [g EXCEPT !.alive = FALSE]]
    ELSE IF Malformed(file[g.pos + 1])
    THEN [kind |-> "parse", val |-> <<>>, g |-> [g EXCEPT !.alive = FALSE]]
    ELSE [kind |-> "yield",
          val |-> <<StreamFields(file[g.pos + 1])[2], StreamFields(file[g.pos + 1])[3]>>,
          g |-> [g EXCEPT !.pos = g.pos + 1]]

(***************************************************************************)
(* LazyDataLoader.                                                         *)
(***************************************************************************)
\* mutant: the re-opened stream starts one line too far
init_stream_skip == [stream_from_file EXCEPT !.pos = 1]

\* LazyDataLoader.init_stream
init_stream == stream_from_file

\* LazyDataLoader.next.  The bare except catches whatever next(self.stream)
\* raised (StopIteration or the parse error), re-opens the stream and calls
\* next() again.  The fresh stream behaves the same on every retry, so a
\* retry that fails fails for ever: the recursion ends in RecursionError,
\* which no frame catches (each frame is inside its except clause).
\*   err: "" or RecursionError; val: the pair returned; g: self.stream after
\*   (for RecursionError: the fresh stream; the action also allows the
\*   finished one); restarts: re-initialisations made, 2 standing for "until
\*   the recursion limit"; parse: a parse error was caught on the way.
next(file, g) ==
    LET first == GenNext(file, g)
        retry == GenNext(file, init_stream)
    IN  IF first.kind = "yield"
        THEN [err |-> NoError, val |-> first.val, g |-> first.g,
              restarts |-> 0, parse |-> FALSE]
        ELSE IF retry.kind = "yield"
        THEN [err |-> NoError, val |-> retry.val, g |-> retry.g,
              restarts |-> 1, parse |-> first.kind = "parse"]
        ELSE [err |-> RecursionError, val |-> <<>>, g |-> init_stream,
              restarts |-> 2,
              parse |-> first.kind = "parse" \/ retry.kind = "parse"]

\* mutant: statistics() reads on from where the stream is
statistics_stream_keep(g) == g

\* LazyDataLoader.statistics, line 205: self.stream = self.init_stream()
statistics_stream(g) == init_stream

\* the for loop of statistics, from generator g with the running values
RECURSIVE statistics_loop(_, _, _, _, _)
statistics_loop(file, g, max_len_value_x, max_len_value_y, num_lines) ==
    LET r == GenNext(file, g)
    IN  IF r.kind = "stop"
        THEN [err |-> NoError, g |-> r.g, parse |-> FALSE,
              val |-> <<max_len_value_x, max_len_value_y, num_lines>>]
        ELSE IF r.kind = "parse"
        THEN [err |-> ValueError, g |-> r.g, parse |-> TRUE, val |-> <<>>]
        ELSE statistics_loop(file, r.g,
                             Max2(max_len_value_x, Len(r.val[1])),
                             Max2(max_len_value_y, Len(r.val[2])),
                             num_lines + 1)

statistics(file, g) == statistics_loop(file, statistics_stream(g), 0, 0, 0)

(***************************************************************************)
(* build_vocabulary and Batcher.write.                                     *)
(***************************************************************************)
\* discard_password
discard_password(password) ==
    Len(password) > ENCODING_MAX_PASSWORD_LENGTH \/ SPACE \in Range(password)

\* A collections.Counter is a dict, which keeps its keys in insertion order:
\* items maps each key to <<stamp, count>>, a key inserted earlier having the
\* smaller stamp, and next is a stamp above all stamps given out.
EmptyCounter == [items |-> <<>>, next |-> 1]

\* Counter(list(text)): one count per character, keyed in order of the
\* characters' first occurrences
CounterOf(text) ==
    [items |-> [c \in Range(text) |->
                   << CHOOSE i \in DOMAIN text :
                          text[i] = c /\ \A j \in 1..(i - 1) : text[j] # c,
                      Cardinality({i \in DOMAIN text : text[i] = c}) >>],
     next |-> Len(text) + 1]

\* vocabulary += other: other's counts are added key by key in other's
\* order, a key new to vocabulary being inserted after those it has
CounterIAdd(vocabulary, other) ==
    [items |-> [c \in DOMAIN vocabulary.items \cup DOMAIN other.items |->
                   IF c \notin DOMAIN vocabulary.items
                   THEN <<vocabulary.next + other.items[c][1], other.items[c][2]>>
                   ELSE IF c \notin DOMAIN other.items
                   THEN vocabulary.items[c]
                   ELSE <<vocabulary.items[c][1],
                          vocabulary.items[c][2] + other.items[c][2]>>],
     next |-> vocabulary.next + other.next]

\* mutant: no cut to the n most common characters
most_common_keys_all(counter, n) == DOMAIN counter.items

\* dict(counter.most_common(n)).keys(): the keys of the first n items of
\* the items sorted by count, largest first, equal counts in insertion
\* order (heapq.nlargest is sorted(.., reverse=True)[:n], which is stable);
\* all keys when there are no more than n
most_common_keys(counter, n) ==
    IF Cardinality(DOMAIN counter.items) <= n
    THEN DOMAIN counter.items
    ELSE {d \in DOMAIN counter.items :
            Cardinality({c \in DOMAIN counter.items :
                            \/ counter.items[c][2] > counter.items[d][2]
                            \/ /\ counter.items[c][2] = counter.items[d][2]
                               /\ counter.items[c][1] < counter.items[d][1]}) < n}

\* line 171: _, x, y = s.strip().split(Batcher.SEP)
VocabFields(s) == Split(Strip(s), SEP)

\* the loop of build_vocabulary from line i on: the Counter, or the
\* ValueError of unpacking a line that has not three fields
RECURSIVE vocabulary_loop(_, _, _)
vocabulary_loop(file, i, vocabulary) ==
    IF i > Len(file) THEN [err |-> NoError, vocabulary |-> vocabulary]
    ELSE LET f == VocabFields(file[i])
         IN  IF Len(f) # 3 THEN [err |-> ValueError, vocabulary |-> EmptyCounter]
             ELSE IF discard_password(f[3]) \/ discard_password(f[2])
             THEN vocabulary_loop(file, i + 1, vocabulary)
             ELSE vocabulary_loop(file, i + 1,
                                  CounterIAdd(vocabulary, CounterOf(f[3] \o f[2])))

\* lines 179-180
append_sentinels(sorted_list) ==
    Append(Append(sorted_list, OOV_CHAR), PAD_CHAR)

\* lines 175-180: vocabulary_sorted_list as handed to write
vocabulary_sorted_list(vocabulary) ==
    append_sentinels(Sorted(most_common_keys(vocabulary, ENCODING_MAX_SIZE_VOCAB)))

\* Batcher.write, line 95 (the dict maps index -> character)
token_indices_of(list) == [i \in 0..(Len(list) - 1) |-> list[i + 1]]

\* Batcher.write, line 96 (the dict maps character -> index; of a character
\* listed twice the later index stays)
indices_token_of(list) ==
    [c \in Range(list) |->
        (CHOOSE i \in DOMAIN list :
            list[i] = c /\ \A j \in DOMAIN list : list[j] = c => j <= i) - 1]

\* Batcher.write from line 97 on, for the two dicts of lines 95-96: the
\* assertion, then the two pickles are written
write_dicts(token_indices, indices_token) ==
    IF Cardinality(DOMAIN token_indices) # Cardinality(DOMAIN indices_token)
    THEN [err |-> AssertionError, token_indices |-> <<>>, indices_token |-> <<>>]
    ELSE [err |-> NoError, token_indices |-> token_indices,
          indices_token |-> indices_token]

\* Batcher.write
write(list) == write_dicts(token_indices_of(list), indices_token_of(list))

\* build_vocabulary from line 182 on: sed.write(vocabulary_sorted_list)
written_vocabulary(sorted_list, w) ==
    [err |-> w.err, listed |-> TRUE, list |-> sorted_list, written |-> w]

\* build_vocabulary from line 175 on, the loop having ended as counted
counted_vocabulary(counted, sorted_list) ==
    IF counted.err # NoError
    THEN [err |-> counted.err, listed |-> FALSE, list |-> <<>>,
          written |-> [err |-> counted.err, token_indices |-> <<>>,
                       indices_token |-> <<>>]]
    ELSE written_vocabulary(sorted_list, write(sorted_list))

\* build_vocabulary: how it ended, the list handed to write (listed: the
\* loop got that far) and what write did
build_vocabulary(file) ==
    counted_vocabulary(vocabulary_loop(file, 1, EmptyCounter),
                       vocabulary_sorted_list(vocabulary_loop(file, 1, EmptyCounter).vocabulary))

\* the two pickles after a build_vocabulary run that ended as r
FilesAfter(r, old_files) ==
    IF r.err = NoError
    THEN [written |-> TRUE, token_indices |-> r.written.token_indices,
          indices_token |-> r.written.indices_token]
    ELSE old_files

\* Batcher.get_chars_and_ctable, line 90:
\* ''.join(list(self.get_token_indices().values()))
get_chars(f) == [k \in 1..Cardinality(DOMAIN f.token_indices) |-> f.token_indices[k - 1]]

(***************************************************************************)
(* Corpus files.  A line is "id" SEP x SEP y "\n".                         *)
(***************************************************************************)
Line(x, y) == <<105, 100, SEP>> \o x \o <<SEP>> \o y \o <<10>>

\* a line of two fields only: "id\ta\n"
BadLine == <<105, 100, SEP, 97, 10>>

\* all sequences over S of length at most n
Corpora(S, n) == UNION {[1..k -> S] : k \in 0..n}

\* password number k of twelve characters found nowhere else
Wide(k) == [i \in 1..ENCODING_MAX_PASSWORD_LENGTH |-> 1000 + 12 * k + i]

\* "id\tabc\txyz", "id\tab\txy", "id\ta\tx", a line whose y has thirteen
\* characters (one that discard_password discards), and the malformed line
LoaderLines ==
    { Line(<<97, 98, 99>>, <<120, 121, 122>>),
      Line(<<97, 98>>, <<120, 121>>),
      Line(<<97>>, <<120>>),
      Line(<<100>>, Wide(8) \o <<101>>),
      BadLine }

(***************************************************************************)
(* Specification of the loader and of Batcher.build: a LazyDataLoader is   *)
(* constructed over the file and driven by next() and statistics() calls,  *)
(* or Batcher.build is run on the file.                                    *)
(***************************************************************************)
Init ==
    /\ corpus \in Corpora(LoaderLines, MaxCorpusLen)
    /\ stream = init_stream         \* LazyDataLoader.__init__
    /\ inits = 0
    /\ calls = <<>>
    /\ BuildIdle
    /\ VocabIdle
    /\ TableIdle

\* self.stream once next() has ended r: after RecursionError the deepest
\* frame failed either calling init_stream (the finished stream stays) or
\* calling next (the fresh stream stays)
StreamsAfter(r) ==
    IF r.err = RecursionError THEN {r.g, [r.g EXCEPT !.alive = FALSE]} ELSE {r.g}

LogNext(r) == [op |-> "next", err |-> r.err, parse |-> r.parse, val |-> r.val]
LogStatistics(r) == [op |-> "statistics", err |-> r.err, parse |-> r.parse, val |-> r.val]

\* data_loader.next()
Next_ ==
    /\ pc = "idle"
    /\ Len(calls) < MaxCalls
    /\ LET r == next(corpus, stream)
       IN  /\ stream' \in StreamsAfter(r)
           /\ inits' = inits + r.restarts
           /\ calls' = Append(calls, LogNext(r))
    /\ UNCHANGED <<corpus, buildVars, vocabVars, tableVars>>

\* data_loader.statistics()
Statistics ==
    /\ pc = "idle"
    /\ Len(calls) < MaxCalls
    /\ LET r == statistics(corpus, stream)
       IN  /\ stream' = r.g
           /\ calls' = Append(calls, LogStatistics(r))
    /\ UNCHANGED <<corpus, inits, buildVars, vocabVars, tableVars>>

\* Batcher.build, line 45: build_vocabulary(training_filename)
BuildVocabulary ==
    /\ pc = "idle"
    /\ calls = <<>>
    /\ \E r \in {build_vocabulary(corpus)} :
           /\ vocab' = [done |-> TRUE, err |-> r.err, listed |-> r.listed, list |-> r.list]
           /\ files' = FilesAfter(r, files)
           /\ pc' = IF r.err = NoError THEN "vectorize" ELSE "aborted"
    /\ UNCHANGED <<corpus, loaderVars, count, inputs, targets, archive, tableVars>>

\* mutant: the first value of the triple is taken for the record count
training_records_count_first(val) == val[1]

\* line 48: _, _, training_records_count = data_loader.statistics()
training_records_count(val) == val[3]

\* Batcher.build, lines 47-50: the loader is constructed, statistics() gives
\* training_records_count
BuildStatistics ==
    /\ pc = "vectorize"
    /\ LET r == statistics(corpus, init_stream)
       IN  /\ stream' = r.g
           /\ calls' = <<LogStatistics(r)>>
           /\ inits' = 0
           /\ IF r.err = NoError
              THEN pc' = "generate" /\ count' = training_records_count(r.val)
              ELSE pc' = "aborted" /\ count' = count
    /\ inputs' = <<>>
    /\ targets' = <<>>
    /\ UNCHANGED <<corpus, archive, vocabVars, tableVars>>

\* Batcher.build, lines 52-56: one turn of the loop
BuildGenerate ==
    /\ pc = "generate"
    /\ Len(inputs) < count
    /\ LET r == next(corpus, stream)
       IN  /\ stream' \in StreamsAfter(r)
           /\ inits' = inits + r.restarts
           /\ calls' = Append(calls, LogNext(r))
           /\ IF r.err = NoError
              THEN /\ inputs' = Append(inputs, r.val[1])
                   /\ targets' = Append(targets, r.val[2])
                   /\ pc' = pc
              ELSE UNCHANGED <<inputs, targets>> /\ pc' = "aborted"
    /\ UNCHANGED <<corpus, count, archive, vocabVars, tableVars>>

\* Batcher.build, line 58: np.savez_compressed once the loop has ended
BuildSave ==
    /\ pc = "generate"
    /\ Len(inputs) = count
    /\ archive' = [exists |-> TRUE, inputs |-> inputs, targets |-> targets]
    /\ pc' = "done"
    /\ UNCHANGED <<corpus, loaderVars, count, inputs, targets, vocabVars, tableVars>>

Next ==
    \/ Next_
    \/ Statistics
    \/ BuildVocabulary
    \/ BuildStatistics
    \/ BuildGenerate
    \/ BuildSave

Spec == Init /\ [][Next]_vars

(***************************************************************************)
(* Properties of the loader and of Batcher.build (checked under Spec).     *)
(***************************************************************************)
WellFormed(file) == \A i \in DOMAIN file : ~Malformed(file[i])

\* record number i (0-based) of a well-formed file, in file order
Record(file, i) == <<StreamFields(file[i + 1])[2], StreamFields(file[i + 1])[3]>>

OnlyNextCalls == \A k \in DOMAIN calls : calls[k].op = "next"

\* the largest of a finite set of naturals, 0 for the empty set
MaxOf(S) == IF S = {} THEN 0 ELSE CHOOSE m \in S : \A n \in S : n <= m

\* C1: on a fresh loader over a non-empty well-formed corpus of N records,
\* every next() call returns a pair, the k-th call returns record
\* (k-1) mod N, call N+1 returns what call 1 returned, and the stream has
\* been re-initialised once per completed pass (once when call N+1 returns).
C1_NextCycles ==
    (pc = "idle" /\ OnlyNextCalls /\ WellFormed(corpus) /\ Len(corpus) > 0) =>
        /\ \A k \in DOMAIN calls :
              /\ calls[k].err = NoError
              /\ calls[k].val = Record(corpus, (k - 1) % Len(corpus))
              /\ k > Len(corpus) => calls[k].val = calls[k - Len(corpus)].val
        /\ calls # <<>> => inits = (Len(calls) - 1) \div Len(corpus)

C1_Witness ==
    /\ pc = "idle" /\ OnlyNextCalls /\ WellFormed(corpus)
    /\ Len(corpus) = 3
    /\ Len(calls) = 4
    /\ inits = 1
    /\ calls[4].val = calls[1].val
    /\ calls[1].val # calls[2].val /\ calls[2].val # calls[3].val

\* C7: statistics(), whatever was called before it, returns the largest
\* len(x), the largest len(y) and the number of records over all records of
\* the (well-formed) corpus, (0, 0, 0) for the empty corpus.
C7_Statistics ==
    WellFormed(corpus) =>
        \A k \in DOMAIN calls :
            calls[k].op = "statistics" =>
                /\ calls[k].err = NoError
                /\ calls[k].val =
                      << MaxOf({Len(Record(corpus, i)[1]) : i \in 0..(Len(corpus) - 1)}),
                         MaxOf({Len(Record(corpus, i)[2]) : i \in 0..(Len(corpus) - 1)}),
                         Len(corpus) >>

C7_Witness ==
    /\ WellFormed(corpus) /\ Len(corpus) = 3
    /\ Len(calls) = 3
    /\ calls[1].op = "next" /\ calls[2].op = "next" /\ calls[3].op = "statistics"
    /\ Len(Record(corpus, 0)[1]) = 3
    /\ discard_password(Record(corpus, 1)[2])
    /\ calls[3].val = <<3, 13, 3>>

C9_ParseErrorSurfaces ==
    /\ \A k \in DOMAIN calls : calls[k].parse => calls[k].err # NoError
    /\ (vocab.done /\ ~WellFormed(corpus)) => vocab.err # NoError
    /\ ~WellFormed(corpus) => (pc # "done" /\ ~archive.exists)

(***************************************************************************)
(* Specification of the vocabulary: build_vocabulary is run on a file,     *)
(* then a Batcher is constructed, which rebuilds the CharacterTable from    *)
(* the pickled mapping.                                                    *)
(***************************************************************************)
\* Four lines of 24 characters each (96 in all, the first of them below the
\* pad character and the last above the OOV character), a line holding the
\* OOV character and a line discarded for a space.
VocabLines ==
    { Line([Wide(0) EXCEPT ![1] = 1], Wide(1)),
      Line(Wide(2), Wide(3)),
      Line(Wide(4), Wide(5)),
      Line(Wide(6), [Wide(7) EXCEPT ![12] = 65313]),
      Line(<<OOV_CHAR, 97>>, <<97>>),
      Line(<<97, SPACE, 98>>, <<99>>) }

InitVocab ==
    /\ corpus \in Corpora(VocabLines, MaxVocabLines)
    /\ LoaderIdle
    /\ BuildIdle
    /\ VocabIdle
    /\ TableIdle

\* build_vocabulary(training_filename)
RunBuildVocabulary ==
    /\ pc = "idle"
    /\ ~vocab.done
    /\ \E r \in {build_vocabulary(corpus)} :
           /\ vocab' = [done |-> TRUE, err |-> r.err, listed |-> r.listed, list |-> r.list]
           /\ files' = FilesAfter(r, files)
    /\ UNCHANGED <<corpus, loaderVars, buildVars, tableVars>>

\* Batcher(load=True): get_chars_and_ctable, or the exception of line 40
\* when the pickles are not there
LoadBatcher ==
    /\ pc = "idle"
    /\ IF files.written
       THEN ctable' = CharacterTable(get_chars(files)) /\ pc' = "loaded"
       ELSE ctable' = ctable /\ pc' = "load_failed"
    /\ UNCHANGED <<corpus, loaderVars, count, inputs, targets, archive, vocabVars,
                   enc, dec>>

NextVocab == RunBuildVocabulary \/ LoadBatcher

SpecVocab == InitVocab /\ [][NextVocab]_vars

(***************************************************************************)
(* Properties of the vocabulary (checked under SpecVocab).                 *)
(***************************************************************************)
Survives(line) ==
    /\ ~discard_password(VocabFields(line)[3])
    /\ ~discard_password(VocabFields(line)[2])

\* the distinct characters of the pairs that are not discarded
SurvivingChars(file) ==
    UNION {Range(VocabFields(file[i])[2]) \cup Range(VocabFields(file[i])[3]) :
              i \in {j \in DOMAIN file : Survives(file[j])}}

VocabularyListOK(list, chars) ==
    /\ Len(list) <= ENCODING_MAX_SIZE_VOCAB + 2
    /\ Len(list) = Min2(ENCODING_MAX_SIZE_VOCAB, Cardinality(chars)) + 2
    /\ list[Len(list) - 1] = OOV_CHAR
    /\ list[Len(list)] = PAD_CHAR
    /\ \A i \in 1..(Len(list) - 3) : list[i] < list[i + 1]
    /\ \A i \in 1..(Len(list) - 2) : list[i] \in chars

\* C5: the list build_vocabulary hands to write holds the K most frequent
\* characters (all of them when there are fewer than K) in ascending order,
\* then the OOV character, then the pad character: at most K + 2 entries.
C5_VocabularyList ==
    vocab.listed => VocabularyListOK(vocab.list, SurvivingChars(corpus))

C5_Witness ==
    /\ vocab.listed
    /\ Cardinality(SurvivingChars(corpus)) > ENCODING_MAX_SIZE_VOCAB
    /\ Len(vocab.list) = ENCODING_MAX_SIZE_VOCAB + 2

\* C6 as stated: whatever the corpus, the list build_vocabulary hands to
\* write has no character twice, the assertion of write holds, and the two
\* pickled mappings are inverses of each other.
C6_NoDuplicates ==
    vocab.listed =>
        /\ \A i, j \in DOMAIN vocab.list : vocab.list[i] = vocab.list[j] => i = j
        /\ vocab.err = NoError
        /\ files.written
        /\ \A i \in DOMAIN files.token_indices :
              files.indices_token[files.token_indices[i]] = i
        /\ \A c \in DOMAIN files.indices_token :
              files.token_indices[files.indices_token[c]] = c

\* C10 as stated: the rebuilt CharacterTable gives every character the
\* index the pickled mapping records for it.
C10_SameIndices_AsStated ==
    pc = "loaded" =>
        \A c \in Range(ctable) : char_indices(ctable)[c] = files.indices_token[c]

\* C10 amended: the rebuilt CharacterTable holds exactly the characters of
\* the pickled mapping but numbers them in sorted order, the sentinels
\* sorted in among them: the index of a character other than the sentinels
\* is its pickled index plus the number of sentinels below it, and the index
\* of the pad character is always smaller than its pickled index.
C10_SameIndices ==
    pc = "loaded" =>
        /\ Range(ctable) = DOMAIN files.indices_token
        /\ Len(ctable) = Cardinality(DOMAIN files.token_indices)
        /\ \A k \in DOMAIN ctable :
              /\ k - 1 = Cardinality({d \in DOMAIN files.indices_token : d < ctable[k]})
              /\ ctable[k] \notin {OOV_CHAR, PAD_CHAR} =>
                    k - 1 = files.indices_token[ctable[k]]
                            + Cardinality({z \in {OOV_CHAR, PAD_CHAR} : z < ctable[k]})
              /\ ctable[k] = PAD_CHAR => k - 1 < files.indices_token[PAD_CHAR]

C10_Witness ==
    /\ pc = "loaded"
    /\ Len(ctable) = ENCODING_MAX_SIZE_VOCAB + 2
    /\ ctable[1] = 1
    /\ ctable[2] = PAD_CHAR
    /\ files.indices_token[PAD_CHAR] = ENCODING_MAX_SIZE_VOCAB + 1
    /\ \E c \in Range(ctable) :
          c > OOV_CHAR /\ char_indices(ctable)[c] = files.indices_token[c] + 2

=============================================================================
